---- MODULE Spec2Model ----
(***************************************************************************)
(* A model of sqlite_cli.py: the SQLiteExplorer connector with its         *)
(* read-only guard, the interactive session loop, the database selection   *)
(* menu and the top-level driver loop of cli().                            *)
(*                                                                         *)
(* Strings are sequences of one-character strings, so that str.strip(),    *)
(* str.upper(), str.lower() and str.startswith() are computed character by *)
(* character as Python computes them.                                      *)
(***************************************************************************)
EXTENDS Integers, Sequences, FiniteSets, TLC

VARIABLES
    pc,              \* position of the program: which prompt it waits at
    db,              \* cli(): the known database path, or NoPath
    conn,            \* explorer.conn: "None", "open" or "closed"
    flag_db,         \* the --db/-d option the program was started with
    openConns,       \* number of connections that are open
    fs,              \* the filesystem: the database paths that exist
    content,         \* content of the database the session is connected to
    query,           \* interactive_mode(): the last line read at the prompt
    result,          \* the last (success, results, message) of execute_query
    read_only,       \* the read_only argument of the last execute_query call
    console,         \* the kind of the last message printed
    engineRan,       \* history: verbs of the statements the engine has run
    engineCommitted, \* history: verbs of the statements that were committed
    genesis_exists,  \* select_database(): local, set when RootMenu is drawn
    base_exists,     \* select_database(): local, set when RootMenu is drawn
    prefixes,        \* select_database(): local, the listed prefixes
    ocean_dbs,       \* browse_ocean_directory(): local, the listed entries
    custom_path,     \* select_database(): local, the last path typed
    args,            \* arguments of the function or subcommand run on its own
    out              \* what that function returned or that subcommand printed

vars == <<pc, db, conn, flag_db, openConns, fs, content, query, result,
          read_only, console, engineRan, engineCommitted, genesis_exists,
          base_exists, prefixes, ocean_dbs, custom_path, args, out>>

-----------------------------------------------------------------------------
(* Bounds of the model *)

\* the engine reports "database or disk is full" beyond this many rows
MaxRows == 1

-----------------------------------------------------------------------------
(* Characters and the string methods of Python the code uses *)

LowerLetters == <<"a","b","c","d","e","f","g","h","i","j","k","l","m",
                  "n","o","p","q","r","s","t","u","v","w","x","y","z">>
UpperLetters == <<"A","B","C","D","E","F","G","H","I","J","K","L","M",
                  "N","O","P","Q","R","S","T","U","V","W","X","Y","Z">>

\* the characters str.strip() removes
Whitespace == {" ", "\t", "\n", "\r"}

LowerSet == {LowerLetters[i] : i \in 1..26}
UpperSet == {UpperLetters[i] : i \in 1..26}

\* the upper-case and the lower-case form of each letter
UpperOf == [c \in LowerSet |-> UpperLetters[CHOOSE i \in 1..26 : LowerLetters[i] = c]]
LowerOf == [c \in UpperSet |-> LowerLetters[CHOOSE i \in 1..26 : UpperLetters[i] = c]]

ToUpperChar(c) == IF c \in LowerSet THEN UpperOf[c] ELSE c

ToLowerChar(c) == IF c \in UpperSet THEN LowerOf[c] ELSE c

\* str.upper()
StrUpper(s) == [i \in 1..Len(s) |-> ToUpperChar(s[i])]

\* str.lower()
StrLower(s) == [i \in 1..Len(s) |-> ToLowerChar(s[i])]

\* str.strip(): drops the leading and the trailing whitespace
StrStrip(s) ==
    LET keep == {i \in 1..Len(s) : s[i] \notin Whitespace}
    IN  IF keep = {} THEN <<>>
        ELSE LET first == CHOOSE i \in keep : \A j \in keep : i <= j
                 last  == CHOOSE i \in keep : \A j \in keep : j <= i
             IN  SubSeq(s, first, last)

\* str.startswith(k)
StartsWith(s, k) == Len(s) >= Len(k) /\ SubSeq(s, 1, Len(k)) = k

-----------------------------------------------------------------------------
(* Words of the statements and of the meta-commands *)

K_INSERT   == <<"I","N","S","E","R","T">>
K_UPDATE   == <<"U","P","D","A","T","E">>
K_DELETE   == <<"D","E","L","E","T","E">>
K_DROP     == <<"D","R","O","P">>
K_CREATE   == <<"C","R","E","A","T","E">>
K_ALTER    == <<"A","L","T","E","R">>
K_TRUNCATE == <<"T","R","U","N","C","A","T","E">>
K_REPLACE  == <<"R","E","P","L","A","C","E">>
K_SELECT   == <<"S","E","L","E","C","T">>
K_PRAGMA   == <<"P","R","A","G","M","A">>
K_WITH     == <<"W","I","T","H">>
K_VACUUM   == <<"V","A","C","U","U","M">>

\* execute_query(): write_keywords
write_keywords == <<K_INSERT, K_UPDATE, K_DELETE, K_DROP, K_CREATE, K_ALTER, K_TRUNCATE, K_REPLACE>>

\* the messages execute_query() returns
PolicyMessage == "Write operations are disabled in read-only mode. Only SELECT and PRAGMA queries are allowed."
StatusMessage == "Query executed successfully. Rows affected"
NoneMessage   == "None"

-----------------------------------------------------------------------------
(* The storage engine behind cursor.execute(): sqlite3 reads the statement *)
(* itself, skipping leading whitespace and ignoring the case of keywords.  *)
(* The database holds one table, memories, with a number of rows.          *)

IsLetter(c) == c \in LowerSet \/ c \in UpperSet

\* the first keyword of the statement as the engine's tokenizer reads it
EngineVerb(q) ==
    LET s == StrStrip(q)
        n == Cardinality({i \in 1..Len(s) : \A j \in 1..i : IsLetter(s[j])})
    IN  StrUpper(SubSeq(s, 1, n))

\* the contents a database can have: no table, or one of 0..MaxRows rows
DbStates == {[tbl |-> FALSE, rows |-> 0]} \cup
            {[tbl |-> TRUE, rows |-> n] : n \in 0..MaxRows}

NoSuchTable == "no such table: memories"
TableExists == "table memories already exists"
DiskFull    == "database or disk is full"
SyntaxError == "syntax error"
EngineFault == "database is locked"

\* cursor.execute(query): the error the engine raises ("" when it accepts),
\* the rows it returns and the content of the database afterwards.  fault
\* is the environment: the engine may reject any statement (locked, I/O).
EngineExecute(q, c, fault) ==
    LET v      == EngineVerb(q)
        err(m) == [error |-> m, rows |-> <<>>, content |-> c]
        ok(r, c2) == [error |-> "", rows |-> r, content |-> c2]
    IN  IF fault THEN err(EngineFault)
        ELSE IF v = K_SELECT THEN
            IF c.tbl THEN ok(<<c.rows>>, c) ELSE err(NoSuchTable)
        ELSE IF v = K_PRAGMA THEN ok(<<>>, c)
        ELSE IF v \in {K_INSERT, K_REPLACE} THEN
            IF ~c.tbl THEN err(NoSuchTable)
            ELSE IF c.rows >= MaxRows THEN err(DiskFull)
            ELSE ok(<<>>, [c EXCEPT !.rows = @ + 1])
        ELSE IF v \in {K_UPDATE, K_ALTER} THEN
            IF c.tbl THEN ok(<<>>, c) ELSE err(NoSuchTable)
        ELSE IF v \in {K_DELETE, K_WITH} THEN
            IF c.tbl THEN ok(<<>>, [c EXCEPT !.rows = 0]) ELSE err(NoSuchTable)
        ELSE IF v = K_DROP THEN
            IF c.tbl THEN ok(<<>>, [tbl |-> FALSE, rows |-> 0]) ELSE err(NoSuchTable)
        ELSE IF v = K_CREATE THEN
            IF c.tbl THEN err(TableExists) ELSE ok(<<>>, [tbl |-> TRUE, rows |-> 0])
        ELSE IF v = K_VACUUM THEN ok(<<>>, c)
        ELSE err(SyntaxError)

-----------------------------------------------------------------------------
(* SQLiteExplorer.execute_query *)

\* a faulty guard: the statement is not trimmed before the comparison
GuardBlocks_NoStrip(q) ==
    LET query_upper == StrUpper(q)
    IN  \E i \in 1..Len(write_keywords) : StartsWith(query_upper, write_keywords[i])

\* lines 50-52: the read-only guard
GuardBlocks(q) ==
    LET query_upper == StrUpper(StrStrip(q))
    IN  \E i \in 1..Len(write_keywords) : StartsWith(query_upper, write_keywords[i])

\* line 60: the statement returns rows
IsReadPath(q) ==
    LET query_upper == StrUpper(StrStrip(q))
    IN  StartsWith(query_upper, K_SELECT) \/ StartsWith(query_upper, K_PRAGMA)

\* a faulty execute_query: the read-only guard is skipped
ExecuteQuery_Unguarded(q, ro, c, fault) ==
    LET e == EngineExecute(q, c, fault)
        ret(s, h, r, m, c2, ran, com) ==
            [success |-> s, has_results |-> h, rows |-> r, message |-> m,
             content |-> c2, ran |-> ran, committed |-> com]
    IN  IF e.error # "" THEN ret(FALSE, FALSE, <<>>, e.error, c, {}, {})
        ELSE IF IsReadPath(q)
        THEN ret(TRUE, TRUE, e.rows, NoneMessage, e.content, {EngineVerb(q)}, {})
        ELSE ret(TRUE, FALSE, <<>>, StatusMessage, e.content,
                 {EngineVerb(q)}, {EngineVerb(q)})

\* execute_query(query, read_only) on a database of content c: the tuple
\* returned, with the content afterwards and what the engine ran and committed
ExecuteQuery(q, ro, c, fault) ==
    LET ret(s, h, r, m, c2, ran, com) ==
            [success |-> s, has_results |-> h, rows |-> r, message |-> m,
             content |-> c2, ran |-> ran, committed |-> com]
    IN  IF ro /\ GuardBlocks(q)
        THEN ret(FALSE, FALSE, <<>>, PolicyMessage, c, {}, {})
        ELSE LET e == EngineExecute(q, c, fault)
             IN  IF e.error # "" THEN ret(FALSE, FALSE, <<>>, e.error, c, {}, {})
                 ELSE IF IsReadPath(q)
                 THEN ret(TRUE, TRUE, e.rows, NoneMessage, e.content,
                          {EngineVerb(q)}, {})
                 ELSE ret(TRUE, FALSE, <<>>, StatusMessage, e.content,
                          {EngineVerb(q)}, {EngineVerb(q)})

\* the value of result before any call
NoResult == [success |-> FALSE, has_results |-> FALSE, rows |-> <<>>,
             message |-> NoneMessage]

ResultOf(r) == [success |-> r.success, has_results |-> r.has_results,
                rows |-> r.rows, message |-> r.message]

-----------------------------------------------------------------------------
(* Paths and the filesystem.  A path is a string; the directory names of   *)
(* the source are shortened.  fs is the set of database files that exist;  *)
(* a directory exists when a database file lies below it.                  *)

NoPath       == <<>>
genesis_path == <<"/","g",".","d","b">>
base_path    == <<"/","b",".","d","b">>
oceans_dir   == <<"/","o">>
OceanDb      == <<"o","c","e","a","n",".","d","b">>

\* the characters of the names, in the order of their code points
CodePoints == <<"0","1","2","3","4","5","6","7","8","9">> \o UpperLetters \o LowerLetters

CodeOf(c) == CHOOSE i \in 1..Len(CodePoints) : CodePoints[i] = c

\* sorted() over one-character names: ascending code points
RECURSIVE SortedNames(_)
SortedNames(S) ==
    IF S = {} THEN <<>>
    ELSE LET least == CHOOSE n \in S : \A m \in S : CodeOf(n) <= CodeOf(m)
         IN  <<least>> \o SortedNames(S \ {least})

\* the child directories <prefix>/<uuid> of oceans_dir that may hold an
\* ocean.db; iterdir() yields them in no particular order
Candidates == {[prefix |-> "A", uuid |-> "2"], [prefix |-> "B", uuid |-> "1"],
               [prefix |-> "A", uuid |-> "1"]}

\* the one-character directories below oceans_dir
PrefixNames == {e.prefix : e \in Candidates}

OceanPath(e) == oceans_dir \o <<"/", e.prefix, "/", e.uuid, "/">> \o OceanDb

AllPaths == {genesis_path, base_path} \cup {OceanPath(e) : e \in Candidates}

\* select_database() lines 349-358: the prefixes holding at least one ocean
ScanPrefixes(f) ==
    LET count(p) == Cardinality({e \in Candidates :
                        e.prefix = p /\ OceanPath(e) \in f})
        names == SortedNames({p \in PrefixNames : count(p) > 0})
    IN  [i \in 1..Len(names) |-> <<names[i], count(names[i])>>]

\* browse_ocean_directory() lines 285-295: the oceans of one prefix
ScanPrefixDirectory(f, prefix) ==
    LET found == SortedNames({e.uuid : e \in {c \in Candidates :
                        c.prefix = prefix /\ OceanPath(c) \in f}})
    IN  [i \in 1..Len(found) |->
            [uuid |-> found[i],
             path |-> OceanPath([prefix |-> prefix, uuid |-> found[i]])]]

-----------------------------------------------------------------------------
(* SQLiteExplorer.close and the steps of cli() that the handlers share *)

\* a faulty close: the connection is left as it is
Close_Skipped(c, n) == [conn |-> c, open |-> n]

\* a faulty close: a connection already closed is released once more
Close_ReleasedAgain(c, n) ==
    IF c # "None"
    THEN [conn |-> "closed", open |-> n - 1]
    ELSE [conn |-> c, open |-> n]

\* close(): closes self.conn when it is set; returns the handle's state and
\* the number of open connections afterwards
Close(c, n) ==
    IF c # "None"
    THEN [conn |-> "closed", open |-> IF c = "open" THEN n - 1 ELSE n]
    ELSE [conn |-> c, open |-> n]

menuVars    == <<genesis_exists, base_exists, prefixes, ocean_dbs, custom_path>>
sessionVars == <<content, query, result, read_only, engineRan, engineCommitted>>
callVars    == <<args, out>>

\* select_database() has returned: its locals are gone
MenuLeft ==
    /\ genesis_exists' = FALSE
    /\ base_exists' = FALSE
    /\ prefixes' = <<>>
    /\ ocean_dbs' = <<>>
    /\ custom_path' = NoPath

\* a faulty menu: the listing of the previous display is shown again
ShowRootMenu_Remembered ==
    /\ pc' = "root"
    /\ UNCHANGED <<genesis_exists, base_exists, prefixes>>
    /\ ocean_dbs' = <<>>
    /\ custom_path' = NoPath

\* select_database() lines 327-387: RootMenu is drawn from a scan of the
\* filesystem and the program waits at "Select database"
ShowRootMenu ==
    /\ pc' = "root"
    /\ genesis_exists' = (genesis_path \in fs)
    /\ base_exists' = (base_path \in fs)
    /\ prefixes' = ScanPrefixes(fs)
    /\ ocean_dbs' = <<>>
    /\ custom_path' = NoPath

\* cli() lines 443-444: select_database() returned None
Cancelled ==
    /\ pc' = "done"
    /\ console' = "Cancelled"
    /\ MenuLeft
    /\ UNCHANGED <<db, conn, flag_db, openConns, fs, sessionVars>>

\* a faulty driver: the value connect() returns is ignored and
\* interactive_mode() is entered also when it failed
OpenSession_IgnoreFailure(path) ==
    /\ db' = path
    /\ flag_db' = flag_db
    /\ MenuLeft
    /\ query' = NoPath
    /\ result' = NoResult
    /\ read_only' = read_only
    /\ engineRan' = {}
    /\ engineCommitted' = {}
    /\ pc' = "session"
    /\ console' = "Interactive SQLite Mode"
    /\ \/ /\ conn' = "open"
          /\ openConns' = openConns + 1
          /\ fs' = fs \cup {path}
          /\ IF path \in fs
             THEN content' \in DbStates
             ELSE content' = [tbl |-> FALSE, rows |-> 0]
       \/ /\ conn' = "None"
          /\ openConns' = openConns
          /\ fs' = fs
          /\ content' = content

\* a different driver: when connect() fails, db is cleared and the loop
\* goes on to select_database() instead of leaving by break
OpenSession_BackToMenu(path) ==
    /\ flag_db' = flag_db
    /\ query' = NoPath
    /\ result' = NoResult
    /\ read_only' = read_only
    /\ engineRan' = {}
    /\ engineCommitted' = {}
    /\ \/ /\ db' = path
          /\ MenuLeft
          /\ conn' = "open"
          /\ openConns' = openConns + 1
          /\ fs' = fs \cup {path}
          /\ IF path \in fs
             THEN content' \in DbStates
             ELSE content' = [tbl |-> FALSE, rows |-> 0]
          /\ \/ pc' = "session" /\ console' = "Interactive SQLite Mode"
             \/ pc' = "crashed" /\ console' = "Aborted"
       \/ /\ db' = NoPath
          /\ ShowRootMenu
          /\ conn' = "None"
          /\ openConns' = openConns
          /\ fs' = fs
          /\ content' = content
          /\ console' = "Error connecting to database"

\* cli() lines 447-460 with connect() and the start of interactive_mode():
\* a new explorer for path; connect() succeeds or fails (the environment
\* decides); on success the help panel is shown and the program waits at
\* "sqlite>", unless an interrupt arrives inside show_help(), which no
\* handler catches.  sqlite3.connect creates a missing file; an existing
\* file holds any content.
OpenSession(path) ==
    /\ db' = path
    /\ flag_db' = flag_db
    /\ MenuLeft
    /\ query' = NoPath
    /\ result' = NoResult
    /\ read_only' = read_only
    /\ engineRan' = {}
    /\ engineCommitted' = {}
    /\ \/ /\ conn' = "open"
          /\ openConns' = openConns + 1
          /\ fs' = fs \cup {path}
          /\ IF path \in fs
             THEN content' \in DbStates
             ELSE content' = [tbl |-> FALSE, rows |-> 0]
          /\ \/ pc' = "session" /\ console' = "Interactive SQLite Mode"
             \/ pc' = "crashed" /\ console' = "Aborted"
       \/ /\ conn' = "None"
          /\ openConns' = openConns
          /\ fs' = fs
          /\ content' = content
          /\ pc' = "done"
          /\ console' = "Error connecting to database"

-----------------------------------------------------------------------------
(* select_database() and browse_ocean_directory(): one action per prompt   *)

Digits == <<"1","2","3","4","5","6","7","8","9">>

\* str.isdigit() and int() on a one-character choice
IsDigit(ch) == \E i \in 1..Len(Digits) : Digits[i] = ch
IntOf(ch)   == CHOOSE i \in 1..Len(Digits) : Digits[i] = ch

\* a faulty menu: the number of the custom path is not among the choices
RootChoices_NoCustom(ge, be, next_option) ==
    (IF ge THEN {"1"} ELSE {}) \cup (IF be THEN {"2"} ELSE {}) \cup
    {Digits[i] : i \in 3..(next_option - 1)} \cup {"X", "x"}

\* a faulty menu: one number beyond the custom path is among the choices
RootChoices_OneMore(ge, be, next_option) ==
    (IF ge THEN {"1"} ELSE {}) \cup (IF be THEN {"2"} ELSE {}) \cup
    {Digits[i] : i \in 3..(next_option + 1)} \cup {"X", "x"}

\* lines 379-385: the choices "Select database" accepts
RootChoices(ge, be, next_option) ==
    (IF ge THEN {"1"} ELSE {}) \cup (IF be THEN {"2"} ELSE {}) \cup
    {Digits[i] : i \in 3..next_option} \cup {"X", "x"}

\* line 315: the choices "Select ocean" accepts
OceanChoices(dbs) == {Digits[i] : i \in 1..Len(dbs)} \cup {"U", "u"}

\* the loop of select_database() comes round: RootMenu is drawn again
Redraw(msg) ==
    /\ ShowRootMenu
    /\ console' = msg
    /\ UNCHANGED <<db, conn, flag_db, openConns, fs, sessionVars>>

\* the program moves to another prompt of the menu
MenuPrompt(p, msg) ==
    /\ pc' = p
    /\ console' = msg
    /\ UNCHANGED <<db, conn, flag_db, openConns, fs, sessionVars,
                   genesis_exists, base_exists, prefixes>>

\* a faulty menu: the number of a known root opens it whether or not the
\* scan found it
RootChoose_RootUnchecked(input) ==
    /\ pc = "root"
    /\ LET next_option == 3 + Len(prefixes)
           choice      == IF input = ""
                          THEN (IF genesis_exists THEN "1" ELSE "2")
                          ELSE input
           choice_num  == IF IsDigit(choice) THEN IntOf(choice) ELSE 0
       IN  /\ input \in RootChoices(genesis_exists, base_exists, next_option) \cup {""}
           /\ IF ToUpperChar(choice) = "X" THEN Cancelled
              ELSE IF choice_num = 1
                   THEN OpenSession(genesis_path)
              ELSE IF choice_num = 2
                   THEN OpenSession(base_path)
              ELSE IF choice_num >= 3 /\ choice_num < next_option
                   THEN LET prefix == prefixes[choice_num - 3 + 1][1]
                            dbs    == ScanPrefixDirectory(fs, prefix)
                        IN  IF dbs = <<>>
                            THEN Redraw("No oceans found")
                            ELSE /\ MenuPrompt("prefix", "Oceans in")
                                 /\ ocean_dbs' = dbs
                                 /\ custom_path' = custom_path
              ELSE IF choice_num = next_option
                   THEN /\ MenuPrompt("custom", "Custom path")
                        /\ UNCHANGED <<ocean_dbs, custom_path>>
              ELSE Redraw("Select Database")
    /\ UNCHANGED callVars

\* lines 387-429 up to the next prompt: the answer to "Select database".
\* input "" is the Enter key, for which Prompt.ask returns the default
\* without comparing it with the choices.
RootChoose(input) ==
    /\ pc = "root"
    /\ LET next_option == 3 + Len(prefixes)
           choice      == IF input = ""
                          THEN (IF genesis_exists THEN "1" ELSE "2")
                          ELSE input
           choice_num  == IF IsDigit(choice) THEN IntOf(choice) ELSE 0
       IN  /\ input \in RootChoices(genesis_exists, base_exists, next_option) \cup {""}
           /\ IF ToUpperChar(choice) = "X" THEN Cancelled
              ELSE IF choice_num = 1 /\ genesis_exists
                   THEN OpenSession(genesis_path)
              ELSE IF choice_num = 2 /\ base_exists
                   THEN OpenSession(base_path)
              ELSE IF choice_num >= 3 /\ choice_num < next_option
                   THEN LET prefix == prefixes[choice_num - 3 + 1][1]
                            dbs    == ScanPrefixDirectory(fs, prefix)
                        IN  IF dbs = <<>>
                            THEN Redraw("No oceans found")
                            ELSE /\ MenuPrompt("prefix", "Oceans in")
                                 /\ ocean_dbs' = dbs
                                 /\ custom_path' = custom_path
              ELSE IF choice_num = next_option
                   THEN /\ MenuPrompt("custom", "Custom path")
                        /\ UNCHANGED <<ocean_dbs, custom_path>>
              ELSE Redraw("Select Database")
    /\ UNCHANGED callVars

\* a faulty browser: the number typed is used as a 0-based index
OceanChoose_NextEntry(choice) ==
    /\ pc = "prefix"
    /\ choice \in OceanChoices(ocean_dbs)
    /\ IF ToUpperChar(choice) = "U"
       THEN Redraw("Select Database")
       ELSE OpenSession(ocean_dbs[(IntOf(choice) % Len(ocean_dbs)) + 1].path)
    /\ UNCHANGED callVars

\* lines 316-321 and 404-407: the answer to "Select ocean"
OceanChoose(choice) ==
    /\ pc = "prefix"
    /\ choice \in OceanChoices(ocean_dbs)
    /\ IF ToUpperChar(choice) = "U"
       THEN Redraw("Select Database")
       ELSE OpenSession(ocean_dbs[IntOf(choice)].path)
    /\ UNCHANGED callVars

M_exit   == <<".","e","x","i","t">>
M_quit   == <<".","q","u","i","t">>
M_x      == <<"x">>
M_help   == <<".","h","e","l","p">>
M_h      == <<".","h">>
M_help0  == <<"h","e","l","p">>
M_db     == <<".","d","b">>
M_database == <<".","d","a","t","a","b","a","s","e">>
M_schema == <<".","s","c","h","e","m","a">>
M_tables == <<".","t","a","b","l","e","s">>

\* what may be typed at "Enter database path"
CustomInputs == AllPaths \cup {M_exit, StrUpper(M_quit), M_x, StrUpper(M_x),
                               M_help, M_help0}

\* a faulty prompt: the path typed is returned without looking for it
CustomInput_Unchecked(text) ==
    /\ pc = "custom"
    /\ text \in CustomInputs
    /\ LET lower == StrLower(text)
       IN  IF lower \in {M_exit, M_quit, M_x} THEN Cancelled
           ELSE IF lower \in {M_help, M_help0}
                THEN /\ MenuPrompt("custom", "Enter the full path")
                     /\ ocean_dbs' = ocean_dbs
                     /\ custom_path' = text
           ELSE OpenSession(text)
    /\ UNCHANGED callVars

\* a faulty prompt: a cancel token leads back to RootMenu
CustomInput_CancelToRoot(text) ==
    /\ pc = "custom"
    /\ text \in CustomInputs
    /\ LET lower == StrLower(text)
       IN  IF lower \in {M_exit, M_quit, M_x} THEN Redraw("Select Database")
           ELSE IF lower \in {M_help, M_help0}
                THEN /\ MenuPrompt("custom", "Enter the full path")
                     /\ ocean_dbs' = ocean_dbs
                     /\ custom_path' = text
           ELSE IF text \in fs
                THEN OpenSession(text)
           ELSE /\ MenuPrompt("retry", "Database not found")
                /\ ocean_dbs' = ocean_dbs
                /\ custom_path' = text
    /\ UNCHANGED callVars

\* lines 411-428: the answer to "Enter database path"
CustomInput(text) ==
    /\ pc = "custom"
    /\ text \in CustomInputs
    /\ LET lower == StrLower(text)
       IN  IF lower \in {M_exit, M_quit, M_x} THEN Cancelled
           ELSE IF lower \in {M_help, M_help0}
                THEN /\ MenuPrompt("custom", "Enter the full path")
                     /\ ocean_dbs' = ocean_dbs
                     /\ custom_path' = text
           ELSE IF text \in fs
                THEN OpenSession(text)
           ELSE /\ MenuPrompt("retry", "Database not found")
                /\ ocean_dbs' = ocean_dbs
                /\ custom_path' = text
    /\ UNCHANGED callVars

\* lines 428-429: the answer to "Try again?"
RetryAnswer(again) ==
    /\ pc = "retry"
    /\ IF again
       THEN /\ MenuPrompt("custom", "Enter database path")
            /\ UNCHANGED <<ocean_dbs, custom_path>>
       ELSE /\ pc' = "done"
            /\ console' = "Database not found"
            /\ MenuLeft
            /\ UNCHANGED <<db, conn, flag_db, openConns, fs, sessionVars>>
    /\ UNCHANGED callVars

\* the environment: a database file appears or disappears while the
\* program waits at a prompt of the menu
FsChange(path) ==
    /\ pc \in {"root", "prefix", "custom", "retry"}
    /\ path \in AllPaths
    /\ fs' = IF path \in fs THEN fs \ {path} ELSE fs \cup {path}
    /\ UNCHANGED <<pc, db, conn, flag_db, openConns, console, sessionVars, menuVars>>
    /\ UNCHANGED callVars

-----------------------------------------------------------------------------
(* interactive_mode(): one action per line read at "sqlite>" *)

\* the rest of a statement after its first keyword
Rest == <<" ", "m">>

Capitalized(w) == <<w[1]>> \o StrLower(Tail(w))

\* the statements typed in a session
SessionQueries ==
    { StrLower(K_SELECT) \o Rest,
      <<" ", "\t">> \o Capitalized(K_INSERT) \o Rest,
      StrLower(K_DROP) \o Rest,
      StrLower(K_WITH) \o Rest,
      <<"x">> \o Rest }

\* the lines typed in a session: statements, meta-commands, empty lines
SessionInputs ==
    SessionQueries \cup
    {M_exit, StrUpper(M_quit), M_db, M_help, Capitalized(M_schema), M_tables, <<" ">>}

\* every second letter in upper case
MixedCase(w) == [i \in 1..Len(w) |-> IF i % 2 = 0 THEN ToUpperChar(w[i]) ELSE w[i]]

MetaWords == {M_exit, M_quit, M_db, M_database, M_help, M_h, M_help0,
              M_schema, M_tables}

\* the values Prompt.ask may hand to the loop: the lines above, every
\* meta-command in three letter cases, lines of blanks, and lines that are
\* nearly a meta-command
SessionLines ==
    SessionInputs \cup
    UNION {{w, StrUpper(w), MixedCase(w)} : w \in MetaWords} \cup
    {<<>>, <<"\t", " ">>} \cup
    {Tail(M_exit), M_db \o <<"x">>, M_quit \o Rest, <<" ">> \o M_schema}

\* lines 184-185, 217-219 and cli() lines 452-458: the loop is left by
\* break, interactive_mode() returns None, the driver closes and stops
SessionDone(msg) ==
    /\ pc' = "done"
    /\ console' = msg
    /\ conn' = Close(conn, openConns).conn
    /\ openConns' = Close(conn, openConns).open
    /\ result' = NoResult
    /\ UNCHANGED <<db, flag_db, fs, menuVars, content, read_only,
                   engineRan, engineCommitted>>

\* a faulty driver: db is not cleared after "SWITCH_DB", so the loop
\* connects to the same path again without calling select_database()
SessionSwitch_KeepDb ==
    /\ pc' = "session"
    /\ console' = "Interactive SQLite Mode"
    /\ conn' = "open"
    /\ openConns' = Close(conn, openConns).open + 1
    /\ result' = NoResult
    /\ content' \in DbStates
    /\ engineRan' = {}
    /\ engineCommitted' = {}
    /\ UNCHANGED <<db, flag_db, fs, read_only, menuVars>>

\* lines 186-189 and cli() lines 452-456: interactive_mode() returns
\* "SWITCH_DB"; the driver closes, clears db and calls select_database()
SessionSwitch ==
    /\ ShowRootMenu
    /\ console' = "Select Database"
    /\ conn' = Close(conn, openConns).conn
    /\ openConns' = Close(conn, openConns).open
    /\ db' = NoPath
    /\ result' = NoResult
    /\ content' = [tbl |-> FALSE, rows |-> 0]
    /\ engineRan' = {}
    /\ engineCommitted' = {}
    /\ UNCHANGED <<flag_db, fs, read_only>>

\* the loop stays at the prompt after printing msg
SessionContinue(msg) ==
    /\ pc' = "session"
    /\ console' = msg
    /\ result' = NoResult
    /\ UNCHANGED <<db, conn, flag_db, openConns, fs, menuVars, content,
                   read_only, engineRan, engineCommitted>>

\* an exception that neither the loop nor cli() handles ends the program
SessionCrash ==
    /\ pc' = "crashed"
    /\ console' = "Traceback"
    /\ result' = NoResult
    /\ UNCHANGED <<db, conn, flag_db, openConns, fs, menuVars, content,
                   read_only, engineRan, engineCommitted>>

\* display_schema(), lines 129-150: get_tables() or get_table_info() may
\* raise sqlite3.Error, which display_schema() does not catch; a fault of
\* get_table_count() is caught inside it
DisplaySchema ==
    \/ SessionCrash
    \/ IF ~content.tbl
       THEN SessionContinue("No tables found in database")
       ELSE SessionCrash \/ SessionContinue("Database Schema")

\* lines 196-202: get_tables() may raise sqlite3.Error
ListTables ==
    \/ SessionCrash
    \/ SessionContinue("Tables:")

\* a faulty execute_query: sqlite3.Error is not caught and leaves the loop
RunQuery_Uncaught(q) ==
    \E fault \in BOOLEAN :
        LET r == ExecuteQuery(q, TRUE, content, fault)
        IN  IF ~r.success /\ r.message # PolicyMessage
            THEN SessionCrash
            ELSE /\ pc' = "session"
                 /\ result' = ResultOf(r)
                 /\ read_only' = TRUE
                 /\ content' = r.content
                 /\ engineRan' = engineRan \cup r.ran
                 /\ engineCommitted' = engineCommitted \cup r.committed
                 /\ console' = IF r.success /\ r.has_results
                               THEN (IF r.rows = <<>> THEN "No results found"
                                     ELSE "Query Results")
                               ELSE r.message
                 /\ UNCHANGED <<db, conn, flag_db, openConns, fs, menuVars>>

\* lines 205-213: execute_query(query) with read_only left at its default;
\* the engine may fault on any statement that reaches it
RunQuery(q) ==
    \E fault \in BOOLEAN :
        LET r == ExecuteQuery(q, TRUE, content, fault)
        IN  /\ pc' = "session"
            /\ result' = ResultOf(r)
            /\ read_only' = TRUE
            /\ content' = r.content
            /\ engineRan' = engineRan \cup r.ran
            /\ engineCommitted' = engineCommitted \cup r.committed
            /\ console' = IF r.success /\ r.has_results
                          THEN (IF r.rows = <<>> THEN "No results found"
                                ELSE "Query Results")
                          ELSE r.message
            /\ UNCHANGED <<db, conn, flag_db, openConns, fs, menuVars>>

\* lines 178-213: one line read and handled
SessionInput(q) ==
    /\ pc = "session"
    /\ q \in SessionLines
    /\ query' = q
    /\ LET lower == StrLower(q)
       IN  IF StrStrip(q) = <<>> THEN SessionContinue(console)
           ELSE IF lower \in {M_exit, M_quit} THEN SessionDone(console)
           ELSE IF lower \in {M_db, M_database} THEN SessionSwitch
           ELSE IF lower \in {M_help, M_h, M_help0}
                THEN SessionContinue("Interactive SQLite Mode")
           ELSE IF lower = M_schema THEN DisplaySchema
           ELSE IF lower = M_tables THEN ListTables
           ELSE RunQuery(q)
    /\ UNCHANGED callVars

\* a faulty loop: KeyboardInterrupt at the prompt leaves the loop
SessionInterrupt_Exits ==
    /\ pc = "session"
    /\ query' = query
    /\ SessionDone("Use .exit or .quit to exit")
    /\ UNCHANGED callVars

\* lines 215-216: KeyboardInterrupt at the prompt
SessionInterrupt ==
    /\ pc = "session"
    /\ query' = query
    /\ SessionContinue("Use .exit or .quit to exit")
    /\ UNCHANGED callVars

\* lines 217-219: EOFError at the prompt
SessionEOF ==
    /\ pc = "session"
    /\ query' = query
    /\ SessionDone("Goodbye")
    /\ UNCHANGED callVars

-----------------------------------------------------------------------------
(* cli() without a subcommand *)

\* lines 438-447: the first turn of the driver loop
Start ==
    /\ pc = "start"
    /\ IF db = NoPath
       THEN Redraw("Select Database")
       ELSE OpenSession(db)
    /\ UNCHANGED callVars

\* the values of --db/-d: not given, or a path
DbOptions == {NoPath, base_path}

\* the database files that come and go while the whole program is run
DriverPaths == {genesis_path, base_path, OceanPath([prefix |-> "A", uuid |-> "1"])}

\* no function or subcommand is run on its own
NoCall == <<>>

Init ==
    /\ pc = "start"
    /\ flag_db \in DbOptions
    /\ db = flag_db
    /\ conn = "None"
    /\ openConns = 0
    /\ fs \in SUBSET DriverPaths
    /\ content = [tbl |-> FALSE, rows |-> 0]
    /\ query = NoPath
    /\ result = NoResult
    /\ read_only = TRUE
    /\ console = ""
    /\ engineRan = {}
    /\ engineCommitted = {}
    /\ genesis_exists = FALSE
    /\ base_exists = FALSE
    /\ prefixes = <<>>
    /\ ocean_dbs = <<>>
    /\ custom_path = NoPath
    /\ args = NoCall
    /\ out = NoCall

Next ==
    \/ Start
    \/ \E input \in {Digits[i] : i \in 1..Len(Digits)} \cup {"X", "x", ""} :
          RootChoose(input)
    \/ \E choice \in {Digits[i] : i \in 1..Len(Digits)} \cup {"U", "u"} :
          OceanChoose(choice)
    \/ \E text \in CustomInputs : CustomInput(text)
    \/ \E again \in BOOLEAN : RetryAnswer(again)
    \/ \E path \in DriverPaths : FsChange(path)
    \/ \E q \in SessionInputs : SessionInput(q)
    \/ SessionInterrupt
    \/ SessionEOF

Spec == Init /\ [][Next]_vars

-----------------------------------------------------------------------------
(* select_database() followed from its first prompt to its return, over    *)
(* the whole catalog; what the driver does with the path ends the run      *)

MenuInit ==
    /\ pc = "start"
    /\ flag_db = NoPath
    /\ db = NoPath
    /\ conn = "None"
    /\ openConns = 0
    /\ fs \in SUBSET AllPaths
    /\ content = [tbl |-> FALSE, rows |-> 0]
    /\ query = NoPath
    /\ result = NoResult
    /\ read_only = TRUE
    /\ console = ""
    /\ engineRan = {}
    /\ engineCommitted = {}
    /\ genesis_exists = FALSE
    /\ base_exists = FALSE
    /\ prefixes = <<>>
    /\ ocean_dbs = <<>>
    /\ custom_path = NoPath
    /\ args = NoCall
    /\ out = NoCall

MenuNext ==
    \/ Start
    \/ \E input \in {Digits[i] : i \in 1..Len(Digits)} \cup {"X", "x", ""} :
          RootChoose(input)
    \/ \E choice \in {Digits[i] : i \in 1..Len(Digits)} \cup {"U", "u"} :
          OceanChoose(choice)
    \/ \E text \in CustomInputs : CustomInput(text)
    \/ \E again \in BOOLEAN : RetryAnswer(again)
    \/ \E path \in AllPaths : FsChange(path)

MenuSpec == MenuInit /\ [][MenuNext]_vars

-----------------------------------------------------------------------------
(* execute_query() called on its own: the statement, the mode and the      *)
(* content of the connected database are drawn from bounded sets           *)

GuardPads  == {<<>>, <<" ">>, <<"\n", "\t">>}
GuardTails == {<<>>, Rest, Rest \o <<" ">>}

\* the first words of the statements: the keywords of the code, two other
\* SQLite verbs, a keyword cut short and a keyword that is only a prefix
GuardWords ==
    {write_keywords[i] : i \in 1..Len(write_keywords)} \cup
    {K_SELECT, K_PRAGMA, K_WITH, K_VACUUM,
     SubSeq(K_INSERT, 1, 5), K_DROP \o <<"S">>, <<"X">> \o K_ALTER}

LetterCases(w) == {w, StrLower(w), Capitalized(w)}

GuardInputs ==
    {pad \o w \o tail : pad \in GuardPads, tail \in GuardTails,
                        w \in UNION {LetterCases(k) : k \in GuardWords}}

GuardInit ==
    /\ pc = "call"
    /\ query \in GuardInputs
    /\ read_only \in BOOLEAN
    /\ content \in DbStates
    /\ result = NoResult
    /\ flag_db = base_path
    /\ db = base_path
    /\ conn = "open"
    /\ openConns = 1
    /\ fs = {base_path}
    /\ console = ""
    /\ engineRan = {}
    /\ engineCommitted = {}
    /\ genesis_exists = FALSE
    /\ base_exists = FALSE
    /\ prefixes = <<>>
    /\ ocean_dbs = <<>>
    /\ custom_path = NoPath
    /\ args = NoCall
    /\ out = NoCall

\* lines 46-67: one call of execute_query(query, read_only)
GuardCall ==
    /\ pc = "call"
    /\ \E fault \in BOOLEAN :
         LET r == ExecuteQuery(query, read_only, content, fault)
         IN  /\ result' = ResultOf(r)
             /\ content' = r.content
             /\ engineRan' = r.ran
             /\ engineCommitted' = r.committed
    /\ pc' = "returned"
    /\ UNCHANGED <<db, conn, flag_db, openConns, fs, query, read_only, console,
                   menuVars>>
    /\ UNCHANGED callVars

GuardNext == GuardCall

GuardSpec == GuardInit /\ [][GuardNext]_vars

-----------------------------------------------------------------------------
(* Properties *)

\* the verbs the read-only policy names as write operations
DeniedVerbs == {K_INSERT, K_UPDATE, K_DELETE, K_DROP, K_CREATE, K_ALTER,
                K_TRUNCATE, K_REPLACE}

\* the text of q, after any leading whitespace, spells the word w in upper
\* or lower case letters
SpellsAfterBlanks(q, w) ==
    \E i \in 0..Len(q) :
        /\ \A j \in 1..i : q[j] \in Whitespace
        /\ i + Len(w) <= Len(q)
        /\ \A j \in 1..Len(w) : q[i + j] = w[j] \/ q[i + j] = StrLower(w)[j]

HasWritePrefix(q) == \E w \in DeniedVerbs : SpellsAfterBlanks(q, w)

Blocked(r) == ~r.success /\ ~r.has_results /\ r.message = PolicyMessage

\* C1: in read-only mode execute_query blocks a statement if and only if
\* its text, trimmed and upper-cased, starts with one of the eight write
\* verbs; statements starting with SELECT or PRAGMA in any case pass the
\* guard, and a blocked statement is not run by the engine.
C1_GuardBlocksExactlyWriteVerbs ==
    (pc = "returned" /\ read_only) =>
        /\ Blocked(result) <=> HasWritePrefix(query)
        /\ (SpellsAfterBlanks(query, K_SELECT) \/ SpellsAfterBlanks(query, K_PRAGMA))
               => ~Blocked(result)
        /\ Blocked(result) => engineRan = {} /\ engineCommitted = {}

\* a padded, not upper-case write statement was blocked
C1_Witness ==
    /\ pc = "returned" /\ read_only
    /\ Blocked(result)
    /\ query[1] \in Whitespace
    /\ query # StrUpper(query)
    /\ SpellsAfterBlanks(query, K_REPLACE)

\* C2: in a session only statements that start with SELECT or PRAGMA are
\* ever run by the engine, and nothing is committed.
C2_OnlySelectOrPragmaRuns ==
    pc \in {"session", "done", "crashed"} =>
        /\ engineRan \subseteq {K_SELECT, K_PRAGMA}
        /\ engineCommitted = {}

\* the lines of a session that spell a write verb, and the other statements
WriteLines   == {q \in SessionInputs : HasWritePrefix(q)}
PassingLines == {q \in SessionQueries : ~HasWritePrefix(q)}

\* C3: a statement the guard blocks never reaches the engine: the policy
\* message is reported, the content of the database is what it was, and
\* the session stays at its prompt with the connection open.
C3_BlockedNeverReachesEngine ==
    [][ \A q \in WriteLines : SessionInput(q) =>
              /\ content' = content
              /\ engineRan' = engineRan
              /\ engineCommitted' = engineCommitted
              /\ Blocked(result')
              /\ console' = PolicyMessage
              /\ pc' = "session"
              /\ conn' = "open" /\ openConns' = openConns ]_vars

\* after a blocked DROP the table still holds its rows
C3_Witness ==
    /\ pc = "session"
    /\ SpellsAfterBlanks(query, K_DROP)
    /\ console = PolicyMessage
    /\ content.tbl /\ content.rows > 0
    /\ conn = "open"

\* C4: at most one session connection is open in every state of the
\* driver, and a connection is opened only when none is open.
C4_AtMostOneConnection ==
    /\ [](openConns <= 1)
    /\ [][ openConns' > openConns => (openConns = 0 /\ conn # "open") ]_vars

\* a second session, opened from the menu after a switch
C4_Witness ==
    /\ pc = "session"
    /\ flag_db # NoPath /\ db # flag_db
    /\ conn = "open" /\ openConns = 1

\* C5: the connection is closed on every path by which the session ends
\* (exit, quit, end-of-input, a switch, a fault), before the program
\* terminates or the next connection is opened.
C5_ClosedOnEveryExit ==
    [][ (pc = "session" /\ pc' # "session") =>
            (openConns' = 0 /\ conn' # "open") ]_vars

SwitchLines == {q \in SessionInputs : StrLower(q) \in {M_db, M_database}}
ExitLines   == {q \in SessionInputs : StrLower(q) \in {M_exit, M_quit}}

\* C6: on the switch-database command the driver closes the connection,
\* clears db and shows RootMenu from a new scan; on exit, quit and
\* end-of-input it closes the connection and terminates, and the program
\* once terminated shows no menu.
C6_SwitchAndDone ==
    [][ /\ \A q \in SwitchLines : SessionInput(q) =>
              /\ pc' = "root" /\ db' = NoPath
              /\ conn' = "closed" /\ openConns' = 0
              /\ genesis_exists' = (genesis_path \in fs)
              /\ base_exists' = (base_path \in fs)
        /\ \A q \in ExitLines : SessionInput(q) =>
              pc' = "done" /\ conn' = "closed" /\ openConns' = 0
        /\ SessionEOF => pc' = "done" /\ conn' = "closed" /\ openConns' = 0
        /\ (pc = "session" /\ pc' = "root") => (db' = NoPath /\ openConns' = 0)
        /\ (pc = "session" /\ pc' = "done") => openConns' = 0
        /\ pc = "done" => pc' = "done" ]_vars

\* RootMenu after a switch out of a session that --db had opened
C6_Witness ==
    /\ pc = "root"
    /\ flag_db # NoPath /\ db = NoPath
    /\ conn = "closed" /\ openConns = 0

\* the step is a connect() that failed
ConnectFailed ==
    /\ pc \in {"start", "root", "prefix", "custom"}
    /\ db' # NoPath
    /\ conn' # "open"

\* C7: when connect() fails the failure is reported, interactive_mode()
\* is not entered and no connection is left open.
C7_ConnectFailure ==
    [][ ConnectFailed =>
          /\ console' = "Error connecting to database"
          /\ pc' \notin {"session", "crashed"}
          /\ conn' = "None" /\ openConns' = 0 ]_vars

C7_Witness ==
    /\ pc = "done"
    /\ console = "Error connecting to database"
    /\ db # NoPath
    /\ conn = "None" /\ openConns = 0

\* the step reports a failed connect() in the flow that began at the menu
MenuConnectFailed ==
    /\ pc \in {"root", "prefix", "custom"}
    /\ console' = "Error connecting to database"

\* C8 as stated: after a failed connect() in the menu-driven flow the
\* driver returns to the selection menu.
C8_FailureReturnsToMenu ==
    [][ MenuConnectFailed => pc' = "root" ]_vars

\* C8 amended: after a failed connect() in the menu-driven flow the driver
\* leaves its loop: the program terminates with no connection open and the
\* selection menu is not shown again.
C8_FailureEndsProgram ==
    [][ /\ MenuConnectFailed => (pc' = "done" /\ openConns' = 0)
        /\ pc = "done" => pc' = "done" ]_vars

C8_Witness ==
    /\ pc = "done"
    /\ flag_db = NoPath /\ db # NoPath
    /\ console = "Error connecting to database"

\* the messages the engine can raise for q on a database of content c
EngineMessages(q, c) == {EngineExecute(q, c, f).error : f \in BOOLEAN} \ {""}

C10_SessionSurvivesEveryError ==
    [][ pc = "session" => pc' # "crashed" ]_vars

-----------------------------------------------------------------------------
(* Properties of the selection menu *)

InMenu == pc \in {"root", "prefix", "custom", "retry"}

ExitKeys     == {"X", "x"}
CancelTokens == {t \in CustomInputs : StrLower(t) \in {M_exit, M_quit, M_x}}
HelpTokens   == {t \in CustomInputs : StrLower(t) \in {M_help, M_help0}}
PathInputs   == CustomInputs \ (CancelTokens \cup HelpTokens)

\* select_database() returns the path p to the driver
ReturnsPath(p) == InMenu /\ ~InMenu' /\ p # NoPath /\ db' = p

\* select_database() returns None to the driver
ReturnsNone == InMenu /\ ~InMenu' /\ db' = NoPath /\ pc' = "done" /\ conn' = "None"

\* C11: the menu starts in RootMenu; from a prompt of the menu a step either
\* stays at a prompt of the menu, or returns a path, or returns None.  A path
\* is returned only for a listed known root, a listed entry of the prefix
\* shown, or a custom path that exists when it is looked for; None is
\* returned only for the exit key, a cancel token or a declined retry.
C11_MenuTermination ==
    [][/\ pc = "start" => pc' = "root"
       /\ InMenu =>
            \/ InMenu'
            \/ /\ \E p \in AllPaths : ReturnsPath(p)
               /\ \/ pc = "root" /\ genesis_exists /\ db' = genesis_path
                  \/ pc = "root" /\ base_exists /\ db' = base_path
                  \/ pc = "prefix" /\ \E i \in 1..Len(ocean_dbs) : ocean_dbs[i].path = db'
                  \/ pc = "custom" /\ db' \in fs
            \/ /\ ReturnsNone
               /\ \/ \E k \in ExitKeys : RootChoose(k)
                  \/ \E t \in CancelTokens : CustomInput(t)
                  \/ RetryAnswer(FALSE)]_vars

\* a path of the second entry of a prefix has been returned and opened
C11_Witness ==
    /\ pc = "session"
    /\ db = OceanPath([prefix |-> "A", uuid |-> "2"])

\* RootMenu is on the screen, drawn from the filesystem as it is now
RootMenuDrawn ==
    /\ pc' = "root"
    /\ genesis_exists' = (genesis_path \in fs')
    /\ base_exists' = (base_path \in fs')
    /\ prefixes' = ScanPrefixes(fs')

\* C12: at "Select ocean" the number of an entry returns the path of that
\* entry, and U or u leads to a freshly drawn RootMenu: nothing is returned
\* to the driver and the program does not end.
C12_PrefixMenuChoices ==
    [][pc = "prefix" =>
         /\ \A i \in 1..Len(ocean_dbs) :
               OceanChoose(Digits[i]) => ReturnsPath(ocean_dbs[i].path)
         /\ \A u \in {"U", "u"} :
               OceanChoose(u) => /\ RootMenuDrawn
                                 /\ db' = NoPath
                                 /\ console' # "Cancelled"]_vars

\* PrefixMenu shows two entries
C12_Witness ==
    /\ pc = "prefix"
    /\ Len(ocean_dbs) = 2
    /\ ocean_dbs[1].path # ocean_dbs[2].path

\* C13: "Enter database path" is left in three ways only.  A cancel token
\* returns None (RootMenu is not shown); a path that exists is returned; a
\* path that does not exist is reported and the retry question asked, and
\* declining it returns None.  A help token and an accepted retry lead back
\* to the prompt.
C13_CustomPathPrompt ==
    [][/\ pc = "custom" =>
            /\ \A t \in CancelTokens :
                  CustomInput(t) => ReturnsNone /\ console' = "Cancelled"
            /\ \A t \in HelpTokens : CustomInput(t) => pc' = "custom"
            /\ \A t \in PathInputs :
                  CustomInput(t) =>
                     IF t \in fs THEN ReturnsPath(t)
                     ELSE pc' = "retry" /\ console' = "Database not found"
       /\ pc = "retry" =>
            /\ RetryAnswer(TRUE) => pc' = "custom"
            /\ RetryAnswer(FALSE) => ReturnsNone]_vars

\* the retry question is asked about a path that does not exist
C13_Witness ==
    /\ pc = "retry"
    /\ custom_path \in PathInputs
    /\ custom_path \notin fs

\* C14: whatever the scan found, RootMenu accepts the number of the custom
\* path and the exit keys; the exit keys return None with "Cancelled".
C14_RootMenuAlwaysOffers ==
    /\ [](pc = "root" =>
            /\ ENABLED (RootChoose(Digits[3 + Len(prefixes)]) /\ pc' = "custom")
            /\ \A k \in ExitKeys : ENABLED RootChoose(k))
    /\ [][\A k \in ExitKeys :
            RootChoose(k) => ReturnsNone /\ console' = "Cancelled"]_vars

\* RootMenu drawn from an empty catalog
C14_Witness ==
    /\ pc = "root"
    /\ fs = {}
    /\ ~genesis_exists
    /\ ~base_exists
    /\ prefixes = <<>>

-----------------------------------------------------------------------------
(* display_results() called on its own: the number of rows and the cap are *)
(* drawn from bounded sets.  A row of the table is identified with the row *)
(* of the result it was made from.                                         *)

\* the largest number of rows of a result
MaxResults == 120

\* line 92: the default of max_rows, which every caller uses
max_rows == 50

RenderCaps == {1, 2, max_rows}

\* the driver's variables while a function is run on its own
DriverIdle ==
    /\ flag_db = NoPath
    /\ db = NoPath
    /\ conn = "None"
    /\ openConns = 0
    /\ fs = {}
    /\ content = [tbl |-> FALSE, rows |-> 0]
    /\ query = NoPath
    /\ result = NoResult
    /\ read_only = TRUE
    /\ console = ""
    /\ engineRan = {}
    /\ engineCommitted = {}
    /\ genesis_exists = FALSE
    /\ base_exists = FALSE
    /\ prefixes = <<>>
    /\ ocean_dbs = <<>>
    /\ custom_path = NoPath

driverVars == <<db, conn, flag_db, openConns, fs, console, sessionVars, menuVars>>

NothingShown == [table |-> FALSE, rows |-> <<>>, line |-> "", first |-> 0,
                 of |-> 0, tip |-> FALSE]

\* a faulty renderer: a result of exactly max_rows rows counts as truncated
DisplayResults_AtCap(results, cap) ==
    IF results = <<>>
    THEN [NothingShown EXCEPT !.line = "No results found"]
    ELSE LET total_rows == Len(results)
             truncated  == total_rows >= cap
             shown      == IF truncated THEN SubSeq(results, 1, cap) ELSE results
         IN  [table |-> TRUE, rows |-> shown,
              line  |-> IF truncated THEN "Showing first" ELSE "Total rows",
              first |-> IF truncated THEN cap ELSE 0,
              of    |-> total_rows,
              tip   |-> truncated]

\* lines 92-126: the table printed, the line below it with its numbers, and
\* whether the LIMIT tip follows
DisplayResults(results, cap) ==
    IF results = <<>>
    THEN [NothingShown EXCEPT !.line = "No results found"]
    ELSE LET total_rows == Len(results)
             truncated  == total_rows > cap
             shown      == IF truncated THEN SubSeq(results, 1, cap) ELSE results
         IN  [table |-> TRUE, rows |-> shown,
              line  |-> IF truncated THEN "Showing first" ELSE "Total rows",
              first |-> IF truncated THEN cap ELSE 0,
              of    |-> total_rows,
              tip   |-> truncated]

RenderInit ==
    /\ pc = "call"
    /\ \E n \in 0..MaxResults, cap \in RenderCaps :
          args = [results |-> [i \in 1..n |-> i], max_rows |-> cap]
    /\ out = NothingShown
    /\ DriverIdle

RenderCall ==
    /\ pc = "call"
    /\ pc' = "returned"
    /\ out' = DisplayResults(args.results, args.max_rows)
    /\ UNCHANGED <<args, driverVars>>

RenderNext == RenderCall

RenderSpec == RenderInit /\ [][RenderNext]_vars

Min(a, b) == IF a <= b THEN a ELSE b

\* C15: a result of n >= 1 rows rendered with cap c gives a table of the
\* first min(n, c) rows in their order; the "Showing first c of n" line and
\* the LIMIT tip are printed exactly when n > c, and "Total rows: n" is
\* printed otherwise.
C15_TruncatedRendering ==
    (pc = "returned" /\ args.results # <<>>) =>
        LET n == Len(args.results)
            c == args.max_rows
        IN  /\ out.table
            /\ Len(out.rows) = Min(n, c)
            /\ \A i \in 1..Min(n, c) : out.rows[i] = args.results[i]
            /\ (out.line = "Showing first") <=> (n > c)
            /\ out.tip <=> (n > c)
            /\ n > c => out.first = c /\ out.of = n
            /\ n <= c => out.line = "Total rows" /\ out.of = n

\* 120 rows under the cap of 50: "Showing first 50 of 120" and 50 rows
C15_Witness ==
    /\ pc = "returned"
    /\ Len(args.results) = 120
    /\ args.max_rows = 50
    /\ Len(out.rows) = 50
    /\ out.line = "Showing first" /\ out.first = 50 /\ out.of = 120

-----------------------------------------------------------------------------
(* The subcommands schema and tables, run on a database of several tables. *)
(* A table has a number of rows and may be one the engine cannot count (a  *)
(* virtual table whose module is missing); the file may also be one the    *)
(* engine cannot open or cannot read at all.                               *)

\* the names of the tables, one character each
TableNames == {"m", "F", "t"}

\* the databases: a table of every subset of the names
Databases ==
    UNION {[S -> [rows : 0..MaxRows, countable : BOOLEAN]] : S \in SUBSET TableNames}

\* how the file behaves: it is a database, connect() fails on it, or
\* connect() succeeds and the first statement fails (not a database, locked)
FileKinds == {"database", "no_connect", "unreadable"}

\* lines 69-73: the names in the order of ORDER BY name
GetTables(tabs) == SortedNames(DOMAIN tabs)

\* a faulty count: the error of the engine is passed on to the caller
GetTableCount_Propagates(tabs, t) ==
    IF tabs[t].countable
    THEN [raised |-> FALSE, count |-> tabs[t].rows]
    ELSE [raised |-> TRUE, count |-> 0]

\* lines 81-89: the number of rows, or 0 when the engine rejects the count
GetTableCount(tabs, t) ==
    IF tabs[t].countable
    THEN [raised |-> FALSE, count |-> tabs[t].rows]
    ELSE [raised |-> FALSE, count |-> 0]

\* lines 136-138 and 505-507: one line per table, with its count
TableLines(tabs) ==
    LET names == GetTables(tabs)
    IN  [i \in 1..Len(names) |-> <<names[i], GetTableCount(tabs, names[i]).count>>]

CountRaises(tabs) == \E t \in DOMAIN tabs : GetTableCount(tabs, t).raised

NothingListed == [line |-> "", listing |-> <<>>]

\* connect(), the listing, close(): what schema and tables share
Subcommand(kind, tabs, title, empty) ==
    IF kind = "no_connect"
    THEN /\ pc' = "returned"
         /\ conn' = "None" /\ openConns' = openConns
         /\ out' = [NothingListed EXCEPT !.line = "Error connecting to database"]
    ELSE IF kind = "unreadable" \/ CountRaises(tabs)
    THEN /\ pc' = "crashed"
         /\ conn' = "open" /\ openConns' = openConns + 1
         /\ out' = [NothingListed EXCEPT !.line = "Traceback"]
    ELSE /\ pc' = "returned"
         /\ conn' = Close("open", openConns + 1).conn
         /\ openConns' = Close("open", openConns + 1).open
         /\ out' = IF tabs = <<>> /\ empty # ""
                   THEN [NothingListed EXCEPT !.line = empty]
                   ELSE [line |-> title, listing |-> TableLines(tabs)]

ListInit ==
    /\ pc = "call"
    /\ \E cmd \in {"schema", "tables"}, tabs \in Databases, kind \in FileKinds :
          args = [cmd |-> cmd, tables |-> tabs, file |-> kind]
    /\ out = NothingListed
    /\ DriverIdle

listedVars == <<args, flag_db, db, fs, console, sessionVars, menuVars>>

\* lines 463-470 with display_schema, lines 129-150
SchemaCommand ==
    /\ pc = "call"
    /\ args.cmd = "schema"
    /\ Subcommand(args.file, args.tables, "Database Schema",
                  "No tables found in database")
    /\ UNCHANGED listedVars

\* lines 493-510
TablesCommand ==
    /\ pc = "call"
    /\ args.cmd = "tables"
    /\ Subcommand(args.file, args.tables, "Database Tables", "")
    /\ UNCHANGED listedVars

ListNext == SchemaCommand \/ TablesCommand

ListSpec == ListInit /\ [][ListNext]_vars

\* the tables of args that the engine cannot count
Uncountable == {t \in DOMAIN args.tables : ~args.tables[t].countable}

-----------------------------------------------------------------------------
(* get_ocean_metadata() and the scan of browse_ocean_directory(), run on  *)
(* their own over ocean files of every kind                                *)

MB == 1024 * 1024

\* st_size of the files, in bytes
FileSizes == {0, MB \div 4, MB, 3 * MB + MB \div 2}

\* "%.1f" of bytes / MB as a number of tenths: the nearest tenth, the even
\* one of two that are equally near
Tenths(bytes) ==
    LET q == (bytes * 10) \div MB
        r == (bytes * 10) % MB
    IN  IF 2 * r > MB \/ (2 * r = MB /\ q % 2 = 1) THEN q + 1 ELSE q

\* the text f"{size_mb:.1f} MB", and the text "0 MB" of the failing path
SizeText(bytes) == [tenths |-> Tenths(bytes), decimals |-> 1]
ZeroMB          == [tenths |-> 0, decimals |-> 0]

\* display_name = None
NoName    == ""
LongTitle == "a title of fifty characters or more"

TitleLength(t) == IF t = LongTitle THEN 50 ELSE IF t = NoName THEN 0 ELSE 8

\* the first memory: no row, a payload that is not JSON, or a content with
\* some of the words looked for and a first-level title
Payloads ==
    {[row |-> FALSE, json |-> FALSE, words |-> {}, title |-> NoName],
     [row |-> TRUE, json |-> FALSE, words |-> {}, title |-> NoName]} \cup
    [row : {TRUE}, json : {TRUE},
     words : {{}, {"Compadres"}, {"Bureau"}, {"Genesis"}, {"Compadres", "Genesis"}},
     title : {NoName, "My Ocean", LongTitle}]

\* lines 231-257: the friendly name taken from the first memory
DisplayName(p) ==
    IF ~p.row \/ ~p.json THEN NoName
    ELSE IF p.title # NoName /\ TitleLength(p.title) < 50 THEN p.title
    ELSE IF "Compadres" \in p.words THEN "Compadres Ocean"
    ELSE IF "Bureau" \in p.words THEN "Alex Donnan (Bureau Club)"
    ELSE IF "Genesis" \in p.words THEN "Genesis Ocean"
    ELSE NoName

\* what a probe meets: a sound database, a file connect() fails on, a file
\* whose memories cannot be counted, a file gone before stat()
ProbeHealths == {"sound", "no_connect", "uncountable", "no_stat"}

OceanFiles == [health : ProbeHealths, count : 0..MaxRows, bytes : FileSizes,
               payload : Payloads]

Degraded == [count |-> 0, size |-> ZeroMB, display_name |-> NoName, exists |-> FALSE]

\* a faulty probe: the size is taken from the file also on the failing path
GetOceanMetadata_StatOnFailure(file) ==
    IF file.health = "sound"
    THEN [metadata |-> [count |-> file.count, size |-> SizeText(file.bytes),
                        display_name |-> DisplayName(file.payload),
                        exists |-> TRUE],
          leaked |-> FALSE]
    ELSE [metadata |-> [Degraded EXCEPT !.size = SizeText(file.bytes)],
          leaked |-> file.health = "uncountable"]

\* lines 222-272: the metadata returned, and whether the connection of the
\* probe is dropped without conn.close() of line 260 being reached; such a
\* connection stays open until the interpreter finalises the object, which
\* may be at once or later
GetOceanMetadata(file) ==
    IF file.health = "sound"
    THEN [metadata |-> [count |-> file.count, size |-> SizeText(file.bytes),
                        display_name |-> DisplayName(file.payload),
                        exists |-> TRUE],
          leaked |-> FALSE]
    ELSE [metadata |-> Degraded,
          leaked |-> file.health = "uncountable"]

\* the connections one probe has dropped unclosed
Unclosed(probe) == IF probe.leaked THEN 1 ELSE 0

\* a faulty scan: an ocean whose probe failed is left out
OceanEntries_SkipFailed(f, prefix, files) ==
    LET dbs  == ScanPrefixDirectory(f, prefix)
        good == SelectSeq(dbs, LAMBDA d : files[d.path].health = "sound")
    IN  [i \in 1..Len(good) |->
            [uuid |-> good[i].uuid, path |-> good[i].path,
             metadata |-> GetOceanMetadata(files[good[i].path]).metadata]]

\* lines 285-295: the entries of ocean_dbs with their metadata
OceanEntries(f, prefix, files) ==
    LET dbs == ScanPrefixDirectory(f, prefix)
    IN  [i \in 1..Len(dbs) |->
            [uuid |-> dbs[i].uuid, path |-> dbs[i].path,
             metadata |-> GetOceanMetadata(files[dbs[i].path]).metadata]]

\* the connections the probes of one scan leave open
LeakedBy(f, prefix, files) ==
    Cardinality({d \in {ScanPrefixDirectory(f, prefix)[i] :
                            i \in 1..Len(ScanPrefixDirectory(f, prefix))} :
                    GetOceanMetadata(files[d.path]).leaked})

OceanPaths == {OceanPath(e) : e \in Candidates}

\* the files a scan meets
ScanFiles == {file \in OceanFiles :
                 /\ file.bytes = MB
                 /\ file.payload = [row |-> FALSE, json |-> FALSE, words |-> {},
                                    title |-> NoName]
                 /\ file.health \in {"sound", "uncountable", "no_stat"}
                 /\ file.health # "sound" => file.count = 0}

NotProbed == [metadata |-> Degraded, entries |-> <<>>, line |-> ""]

ProbeInit ==
    /\ pc = "call"
    /\ \/ \E file \in OceanFiles : args = [op |-> "probe", file |-> file]
       \/ \E prefix \in PrefixNames, files \in [OceanPaths -> ScanFiles] :
             args = [op |-> "browse", prefix |-> prefix, files |-> files]
    /\ out = NotProbed
    /\ flag_db = NoPath
    /\ db = NoPath
    /\ conn = "None"
    /\ openConns = 0
    /\ fs \in IF args.op = "probe" THEN {{}} ELSE SUBSET OceanPaths
    /\ content = [tbl |-> FALSE, rows |-> 0]
    /\ query = NoPath
    /\ result = NoResult
    /\ read_only = TRUE
    /\ console = ""
    /\ engineRan = {}
    /\ engineCommitted = {}
    /\ genesis_exists = FALSE
    /\ base_exists = FALSE
    /\ prefixes = <<>>
    /\ ocean_dbs = <<>>
    /\ custom_path = NoPath

probedVars == <<args, flag_db, db, conn, fs, console, sessionVars, menuVars>>

\* lines 222-272: one call of get_ocean_metadata(db_path)
ProbeCall ==
    /\ pc = "call"
    /\ args.op = "probe"
    /\ pc' = "returned"
    /\ out' = [NotProbed EXCEPT !.metadata = GetOceanMetadata(args.file).metadata]
    /\ openConns' \in openConns..(openConns + Unclosed(GetOceanMetadata(args.file)))
    /\ UNCHANGED probedVars

\* lines 275-299: browse_ocean_directory(prefix) up to its listing
BrowseScan ==
    /\ pc = "call"
    /\ args.op = "browse"
    /\ pc' = "returned"
    /\ LET entries == OceanEntries(fs, args.prefix, args.files)
       IN  out' = [NotProbed EXCEPT !.entries = entries,
                                    !.line = IF entries = <<>>
                                             THEN "No oceans found"
                                             ELSE "Oceans in"]
    /\ openConns' \in openConns..(openConns + LeakedBy(fs, args.prefix, args.files))
    /\ UNCHANGED probedVars

ProbeNext == ProbeCall \/ BrowseScan

ProbeSpec == ProbeInit /\ [][ProbeNext]_vars

CorruptProbed == pc = "returned" /\ args.op = "probe" /\ args.file.health = "uncountable"

\* C17 as stated: the probe of a file whose memories cannot be counted
\* returns count 0, the size computed from the size of the file, and no
\* display name.
C17_CorruptProbeKeepsSize ==
    CorruptProbed =>
        /\ out.metadata.count = 0
        /\ out.metadata.size = SizeText(args.file.bytes)
        /\ out.metadata.display_name = NoName

\* C17 amended: the probe of a file whose memories cannot be counted returns
\* the fixed snapshot of the failing path: count 0, the size text "0 MB"
\* whatever the size of the file, no display name, and exists False.
C17_CorruptProbeDegraded ==
    CorruptProbed =>
        /\ out.metadata.count = 0
        /\ out.metadata.size = ZeroMB
        /\ out.metadata.display_name = NoName
        /\ out.metadata.exists = FALSE

\* a file of 3.5 MB with a memory and a title, which cannot be counted
C17_Witness ==
    /\ CorruptProbed
    /\ args.file.bytes = 3 * MB + MB \div 2
    /\ args.file.payload.title = "My Ocean"
    /\ out.metadata = Degraded

Scanned == pc = "returned" /\ args.op = "browse"

\* the child directories of the prefix scanned that hold an ocean.db
Holding == {e \in Candidates : e.prefix = args.prefix /\ OceanPath(e) \in fs}

\* C18: the scan of a prefix directory returns one entry for each child
\* directory holding an ocean.db, in the order of the names, whatever the
\* probes met: an entry whose probe failed is there with count 0 and
\* exists False, and the entries after it are probed as usual.
C18_FailedProbeKeepsEntry ==
    Scanned =>
        /\ Len(out.entries) = Cardinality(Holding)
        /\ \A e \in Holding :
              \E i \in 1..Len(out.entries) :
                 /\ out.entries[i].uuid = e.uuid
                 /\ out.entries[i].path = OceanPath(e)
        /\ \A i, j \in 1..Len(out.entries) :
              i < j => CodeOf(out.entries[i].uuid) < CodeOf(out.entries[j].uuid)
        /\ \A i \in 1..Len(out.entries) :
              LET file == args.files[out.entries[i].path]
                  m    == out.entries[i].metadata
              IN  IF file.health = "sound"
                  THEN m.exists /\ m.count = file.count
                  ELSE ~m.exists /\ m.count = 0

\* two oceans listed: the probe of the first failed, the second has a memory
C18_Witness ==
    /\ Scanned
    /\ Len(out.entries) = 2
    /\ args.files[out.entries[1].path].health = "uncountable"
    /\ ~out.entries[1].metadata.exists
    /\ out.entries[2].metadata.exists
    /\ out.entries[2].metadata.count = 1

-----------------------------------------------------------------------------
(* The subcommands query, create and tables, run one after another from    *)
(* the shell on the database file db                                       *)

\* the statements given to query
CmdQueries == SessionQueries \cup
              {K_CREATE \o Rest, K_DELETE \o Rest, StrLower(K_PRAGMA) \o Rest}

NoTables == [tbl |-> FALSE, rows |-> 0]

\* the tables of a database of content c
DbTables(c) == IF c.tbl THEN [t \in {"m"} |-> [rows |-> c.rows, countable |-> TRUE]]
               ELSE <<>>

NoCommand == [cmd |-> "", query |-> NoPath, confirm |-> FALSE]

CmdInit ==
    /\ pc = "call"
    /\ args = NoCommand
    /\ out = NothingListed
    /\ flag_db = NoPath
    /\ db = base_path
    /\ conn = "None"
    /\ openConns = 0
    /\ fs \in {{}, {base_path}}
    /\ content \in IF db \in fs THEN DbStates ELSE {NoTables}
    /\ query = NoPath
    /\ result = NoResult
    /\ read_only = TRUE
    /\ console = ""
    /\ engineRan = {}
    /\ engineCommitted = {}
    /\ genesis_exists = FALSE
    /\ base_exists = FALSE
    /\ prefixes = <<>>
    /\ ocean_dbs = <<>>
    /\ custom_path = NoPath

AtShell == pc \in {"call", "returned"}

\* lines 473-490 with execute_query called in the mode ro
QueryWith(q, ro) ==
    /\ AtShell
    /\ db \in fs
    /\ q \in CmdQueries
    /\ pc' = "returned"
    /\ args' = [NoCommand EXCEPT !.cmd = "query", !.query = q]
    /\ query' = q
    /\ \/ /\ conn' = "None"
          /\ out' = [NothingListed EXCEPT !.line = "Error connecting to database"]
          /\ UNCHANGED <<openConns, content, result, read_only, engineRan,
                         engineCommitted>>
       \/ \E fault \in BOOLEAN :
             LET r == ExecuteQuery(q, ro, content, fault)
             IN  /\ conn' = Close("open", openConns + 1).conn
                 /\ openConns' = Close("open", openConns + 1).open
                 /\ result' = ResultOf(r)
                 /\ read_only' = ro
                 /\ content' = r.content
                 /\ engineRan' = r.ran
                 /\ engineCommitted' = r.committed
                 /\ out' = [NothingListed EXCEPT !.line =
                               IF r.success /\ r.has_results
                               THEN DisplayResults(r.rows, max_rows).line
                               ELSE r.message]
    /\ UNCHANGED <<flag_db, db, fs, console, menuVars>>

\* a faulty subcommand: execute_query is called with read_only=False
QueryCommand_Unguarded(q) == QueryWith(q, FALSE)

\* lines 473-490: query DATABASE QUERY; execute_query is called without a
\* mode, so with its default read_only=True
QueryCommand(q) == QueryWith(q, TRUE)

\* lines 513-527: create DATABASE; confirm is the answer to "Overwrite?"
CreateCommand(confirm) ==
    /\ AtShell
    /\ pc' = "returned"
    /\ args' = [NoCommand EXCEPT !.cmd = "create", !.confirm = (db \in fs /\ confirm)]
    /\ IF db \in fs /\ ~confirm
       THEN /\ out' = [NothingListed EXCEPT !.line = "Aborted"]
            /\ UNCHANGED <<fs, content>>
       ELSE \/ /\ out' = [NothingListed EXCEPT !.line = "Created database"]
               /\ fs' = fs \cup {db}
               /\ content' = IF db \in fs THEN content ELSE NoTables
            \/ /\ out' = [NothingListed EXCEPT !.line = "Error creating database"]
               /\ UNCHANGED <<fs, content>>
    /\ UNCHANGED <<flag_db, db, conn, openConns, console, query, result,
                   read_only, engineRan, engineCommitted, menuVars>>

\* lines 493-510: tables DATABASE
CmdTables ==
    /\ AtShell
    /\ db \in fs
    /\ args' = [NoCommand EXCEPT !.cmd = "tables"]
    /\ \E kind \in FileKinds :
          Subcommand(kind, DbTables(content), "Database Tables", "")
    /\ UNCHANGED <<flag_db, db, fs, console, sessionVars, menuVars>>

CmdNext ==
    \/ \E q \in CmdQueries : QueryCommand(q)
    \/ \E confirm \in BOOLEAN : CreateCommand(confirm)
    \/ CmdTables

CmdSpec == CmdInit /\ [][CmdNext]_vars

WriteCmdLines == {q \in CmdQueries : HasWritePrefix(q)}

\* C19 as stated: a statement that starts with a write verb, given to the
\* query subcommand on a database that opens, reaches the engine, is
\* committed, and its status message is printed.
C19_QuerySubcommandUnguarded ==
    [][\A q \in WriteCmdLines :
          (QueryCommand(q) /\ conn' # "None") =>
              /\ engineRan' # {}
              /\ engineCommitted' # {}
              /\ out'.line = StatusMessage]_vars

\* C19 amended: the query subcommand runs its statement under the
\* read-only guard: a statement that starts with a write verb does not reach
\* the engine, leaves the database as it was, and the policy message is
\* printed.
C19_QuerySubcommandGuarded ==
    [][\A q \in WriteCmdLines :
          (QueryCommand(q) /\ conn' # "None") =>
              /\ engineRan' = {}
              /\ engineCommitted' = {}
              /\ content' = content
              /\ out'.line = PolicyMessage]_vars

\* a DROP given to query on a database with a table: refused, table kept
C19_Witness ==
    /\ pc = "returned"
    /\ args.cmd = "query"
    /\ EngineVerb(args.query) = K_DROP
    /\ out.line = PolicyMessage
    /\ content.tbl

\* C20: when create has printed "Created database", the tables subcommand
\* run next on the same path lists no table, also when the path held a
\* database with tables and the overwrite was confirmed.
C20_CreateThenTablesIsEmpty ==
    [][(/\ pc = "returned"
        /\ args.cmd = "create"
        /\ out.line = "Created database"
        /\ CmdTables
        /\ pc' = "returned"
        /\ conn' # "None") => out'.listing = <<>>]_vars

-----------------------------------------------------------------------------
(* Properties of the session loop *)

Reminder == "Use .exit or .quit to exit"

\* C21: KeyboardInterrupt at the prompt of a session prints the reminder
\* and leaves the program at the prompt with the same open connection and
\* the same database, however often it comes; EOFError at the prompt ends
\* the program with the connection closed, and no menu is shown.
C21_InterruptKeepsSession ==
    [][/\ SessionInterrupt =>
            /\ pc' = "session"
            /\ console' = Reminder
            /\ conn = "open" /\ conn' = "open"
            /\ openConns' = openConns
            /\ db' = db /\ content' = content
       /\ SessionEOF =>
            /\ pc' = "done"
            /\ console' = "Goodbye"
            /\ conn' = "closed" /\ openConns' = 0
            /\ db' = db]_vars

\* the prompt is shown again after an interrupt, the connection still open
C21_Witness ==
    /\ pc = "session"
    /\ console = Reminder
    /\ conn = "open"
    /\ openConns = 1

-----------------------------------------------------------------------------
(* interactive_mode() followed from a prompt of a session over every kind  *)
(* of line; what follows a switch or the end of the loop ends the run      *)

DispatchInit ==
    /\ pc = "session"
    /\ flag_db = base_path
    /\ db = base_path
    /\ conn = "open"
    /\ openConns = 1
    /\ fs = {base_path}
    /\ content \in DbStates
    /\ query = NoPath
    /\ result = NoResult
    /\ read_only = TRUE
    /\ console = "Interactive SQLite Mode"
    /\ engineRan = {}
    /\ engineCommitted = {}
    /\ genesis_exists = FALSE
    /\ base_exists = FALSE
    /\ prefixes = <<>>
    /\ ocean_dbs = <<>>
    /\ custom_path = NoPath
    /\ args = NoCall
    /\ out = NoCall

DispatchNext == \E q \in SessionLines : SessionInput(q)

DispatchSpec == DispatchInit /\ [][DispatchNext]_vars

\* the line q spells the word w in some letter case
Spells(q, w) == Len(q) = Len(w) /\ \A i \in 1..Len(w) : ToLowerChar(q[i]) = w[i]

BlankLines  == {q \in SessionLines : \A i \in 1..Len(q) : q[i] \in Whitespace}
ExitWords   == {q \in SessionLines : Spells(q, M_exit) \/ Spells(q, M_quit)}
SwitchWords == {q \in SessionLines : Spells(q, M_db) \/ Spells(q, M_database)}
StayWords   == {q \in SessionLines : \E w \in {M_help, M_h, M_help0, M_schema, M_tables} :
                                        Spells(q, w)}
QueryLines  == SessionLines \ (BlankLines \cup ExitWords \cup SwitchWords \cup StayWords)

\* neither the guard nor the engine has seen a statement in this step
NotExecuted ==
    /\ result' = NoResult
    /\ content' = content
    /\ engineRan' \subseteq engineRan
    /\ engineCommitted' \subseteq engineCommitted

\* C22: a line read at the prompt is handled in one way.  A line of blanks
\* changes nothing; a line that spells a meta-command in any letter case
\* runs it without the guard or the engine seeing the line: .db/.database
\* ends the loop with a switch to the menu, .exit/.quit ends it and the
\* program, .schema/.tables/.help leave the program at the prompt; any
\* other line is given to execute_query in read-only mode.
C22_OneDispatchPerLine ==
    [][/\ \A q \in BlankLines :
            SessionInput(q) => NotExecuted /\ pc' = "session" /\ console' = console
       /\ \A q \in ExitWords :
            SessionInput(q) => NotExecuted /\ pc' = "done" /\ db' = db
       /\ \A q \in SwitchWords :
            SessionInput(q) => pc' = "root" /\ db' = NoPath /\ result' = NoResult
       /\ \A q \in StayWords :
            SessionInput(q) => NotExecuted /\ pc' = "session"
       /\ \A q \in QueryLines :
            SessionInput(q) =>
               /\ pc' = "session"
               /\ \E fault \in BOOLEAN :
                     result' = ResultOf(ExecuteQuery(q, TRUE, content, fault))]_vars

-----------------------------------------------------------------------------
(* A SQLiteExplorer used as an object: connect() once, then execute_query  *)
(* and close() in any order                                                *)

\* close() is called at most this many times in a row
MaxCloses == 2

ClosedMessage == "Cannot operate on a closed database."

Constructed == [method |-> "__init__", raised |-> FALSE, closes |-> 0]

ConnectorInit ==
    /\ pc = "call"
    /\ args = [db_path |-> base_path]
    /\ out = Constructed
    /\ flag_db = NoPath
    /\ db = base_path
    /\ conn = "None"
    /\ openConns = 0
    /\ fs = {base_path}
    /\ content \in DbStates
    /\ query = NoPath
    /\ result = NoResult
    /\ read_only = TRUE
    /\ console = ""
    /\ engineRan = {}
    /\ engineCommitted = {}
    /\ genesis_exists = FALSE
    /\ base_exists = FALSE
    /\ prefixes = <<>>
    /\ ocean_dbs = <<>>
    /\ custom_path = NoPath

connectorVars == <<pc, args, flag_db, db, fs, menuVars>>

\* lines 31-39: connect() on an explorer that has no connection yet
ConnConnect ==
    /\ pc = "call"
    /\ conn = "None"
    /\ out.method # "connect"
    /\ out' = [method |-> "connect", raised |-> FALSE, closes |-> 0]
    /\ \/ /\ conn' = "open"
          /\ openConns' = openConns + 1
          /\ console' = console
       \/ /\ conn' = "None"
          /\ openConns' = openConns
          /\ console' = "Error connecting to database"
    /\ UNCHANGED <<connectorVars, sessionVars>>

\* lines 41-44: close()
ConnClose ==
    /\ pc = "call"
    /\ out.closes < MaxCloses
    /\ out' = [method |-> "close", raised |-> FALSE, closes |-> out.closes + 1]
    /\ conn' = Close(conn, openConns).conn
    /\ openConns' = Close(conn, openConns).open
    /\ UNCHANGED <<connectorVars, console, sessionVars>>

\* lines 46-67: execute_query(q, ro).  Without a connection self.conn is
\* None and line 56 raises AttributeError, which is not caught; on a closed
\* connection it raises sqlite3.ProgrammingError, which is.
ConnExecute(q, ro) ==
    /\ pc = "call"
    /\ query' = q
    /\ read_only' = ro
    /\ IF ro /\ GuardBlocks(q)
       THEN /\ result' = ResultOf(ExecuteQuery(q, ro, content, FALSE))
            /\ out' = [method |-> "execute_query", raised |-> FALSE, closes |-> 0]
            /\ UNCHANGED <<pc, content, engineRan, engineCommitted>>
       ELSE IF conn = "None"
       THEN /\ pc' = "crashed"
            /\ out' = [method |-> "execute_query", raised |-> TRUE, closes |-> 0]
            /\ UNCHANGED <<result, content, engineRan, engineCommitted>>
       ELSE IF conn = "closed"
       THEN /\ result' = [NoResult EXCEPT !.message = ClosedMessage]
            /\ out' = [method |-> "execute_query", raised |-> FALSE, closes |-> 0]
            /\ UNCHANGED <<pc, content, engineRan, engineCommitted>>
       ELSE \E fault \in BOOLEAN :
               LET r == ExecuteQuery(q, ro, content, fault)
               IN  /\ result' = ResultOf(r)
                   /\ content' = r.content
                   /\ engineRan' = engineRan \cup r.ran
                   /\ engineCommitted' = engineCommitted \cup r.committed
                   /\ out' = [method |-> "execute_query", raised |-> FALSE,
                              closes |-> 0]
                   /\ pc' = pc
    /\ UNCHANGED <<args, flag_db, db, fs, conn, openConns, console, menuVars>>

ConnectorNext ==
    \/ ConnConnect
    \/ ConnClose
    \/ \E q \in SessionQueries, ro \in BOOLEAN : ConnExecute(q, ro)

ConnectorSpec == ConnectorInit /\ [][ConnectorNext]_vars

\* C23: close() never raises; on an explorer that has no connection it
\* changes nothing; on one already closed it changes nothing either, so two
\* calls in a row leave what one call leaves, with no connection open.
C23_CloseIsIdempotent ==
    [][ConnClose =>
         /\ ~out'.raised
         /\ pc' = "call"
         /\ conn = "None" => (conn' = "None" /\ openConns' = openConns)
         /\ conn = "open" => (conn' = "closed" /\ openConns' = openConns - 1)
         /\ conn = "closed" => (conn' = "closed" /\ openConns' = openConns)
         /\ content' = content /\ result' = result]_vars

\* close() has been called twice in a row on a connection that was open
C23_Witness ==
    /\ out.method = "close"
    /\ out.closes = 2
    /\ conn = "closed"
    /\ openConns = 0

-----------------------------------------------------------------------------
(* Properties of the catalog shown by the menus *)

\* the oceans of prefix p in the filesystem f
OceansIn(p, f) == {e \in Candidates : e.prefix = p /\ OceanPath(e) \in f}

\* the listing l of prefixes shows the filesystem f: the prefixes that hold
\* an ocean, each once, with the number of its oceans
ListsPrefixes(l, f) ==
    /\ Len(l) = Cardinality({p \in PrefixNames : OceansIn(p, f) # {}})
    /\ \A p \in PrefixNames :
          OceansIn(p, f) # {} =>
             \E i \in 1..Len(l) : l[i] = <<p, Cardinality(OceansIn(p, f))>>

\* the listing l of oceans shows the oceans of one prefix in f, each once
ListsOceans(l, f) ==
    \E p \in PrefixNames :
       /\ Len(l) = Cardinality(OceansIn(p, f))
       /\ \A e \in OceansIn(p, f) :
             \E i \in 1..Len(l) : l[i].uuid = e.uuid /\ l[i].path = OceanPath(e)

\* C24: whenever the program draws RootMenu (at its start, after U, after
\* any answer that leads back to it, after .db in a session) the known
\* roots and prefixes listed are those of the filesystem at that moment,
\* and whenever it enters PrefixMenu the oceans listed are those the prefix
\* holds at that moment; what an earlier display listed plays no part.
C24_MenusShowTheFilesystem ==
    [][/\ (pc' = "root" /\ fs' = fs) =>
            /\ genesis_exists' = (genesis_path \in fs)
            /\ base_exists' = (base_path \in fs)
            /\ ListsPrefixes(prefixes', fs)
       /\ (pc = "root" /\ pc' = "prefix") =>
            /\ ocean_dbs' # <<>>
            /\ ListsOceans(ocean_dbs', fs)]_vars

\* RootMenu drawn after .db in a session, showing a root and a prefix
C24_Witness ==
    /\ pc = "root"
    /\ conn = "closed"
    /\ genesis_exists
    /\ prefixes = <<<<"A", 1>>>>
    /\ fs = {genesis_path, OceanPath([prefix |-> "A", uuid |-> "1"])}

DigitKeys == {Digits[i] : i \in 1..Len(Digits)}

\* C25: RootMenu lists the prefixes that held an ocean in the order of their
\* names and numbers them from 3.  The number 3+k leads to the oceans of the
\* k-th prefix listed (to PrefixMenu, or back to RootMenu with "No oceans
\* found" when the prefix has been emptied since), the number 3+P to the
\* custom path; a number that RootMenu accepts is 1 or 2 for a listed root
\* or lies in 3..3+P, and a number that PrefixMenu accepts is the number of
\* an entry, so no accepted choice indexes outside the list.
C25_NumberingAndRouting ==
    /\ [](pc = "root" =>
            /\ \A i, j \in 1..Len(prefixes) :
                  i < j => CodeOf(prefixes[i][1]) < CodeOf(prefixes[j][1])
            /\ \A i \in 1..Len(prefixes) : prefixes[i][2] >= 1
            /\ \A c \in DigitKeys :
                  ENABLED RootChoose(c) =>
                     \/ IntOf(c) = 1 /\ genesis_exists
                     \/ IntOf(c) = 2 /\ base_exists
                     \/ IntOf(c) \in 3..(3 + Len(prefixes)))
    /\ [](pc = "prefix" =>
            \A c \in DigitKeys :
               ENABLED OceanChoose(c) => IntOf(c) \in 1..Len(ocean_dbs))
    /\ [][pc = "root" =>
            /\ \A k \in 0..(Len(prefixes) - 1) :
                  RootChoose(Digits[3 + k]) =>
                     LET here == OceansIn(prefixes[k + 1][1], fs)
                     IN  IF here = {}
                         THEN pc' = "root" /\ console' = "No oceans found"
                         ELSE /\ pc' = "prefix"
                              /\ Len(ocean_dbs') = Cardinality(here)
                              /\ \A i \in 1..Len(ocean_dbs') :
                                    \E e \in here : ocean_dbs'[i].path = OceanPath(e)
            /\ RootChoose(Digits[3 + Len(prefixes)]) => pc' = "custom"]_vars

\* PrefixMenu of the second of two prefixes listed, reached by the number 4
C25_Witness ==
    /\ pc = "prefix"
    /\ Len(prefixes) = 2
    /\ ocean_dbs = <<[uuid |-> "1", path |-> OceanPath([prefix |-> "B", uuid |-> "1"])]>>

\* C26: the answer to "Select database" returns a known root only if the
\* scan of the display found it.  Enter gives the default, "1" when the
\* first root was found and "2" otherwise: when neither root was found the
\* program returns nothing and draws RootMenu again.
C26_AbsentRootNeverSelected ==
    [][pc = "root" =>
         /\ db' = genesis_path => genesis_exists
         /\ db' = base_path => base_exists
         /\ RootChoose("") =>
               IF genesis_exists THEN ReturnsPath(genesis_path)
               ELSE IF base_exists THEN ReturnsPath(base_path)
               ELSE /\ pc' = "root"
                    /\ db' = NoPath
                    /\ console' = "Select Database"
                    /\ conn' = conn]_vars

\* RootMenu with neither root found, where Enter draws RootMenu again
C26_Witness ==
    /\ pc = "root"
    /\ ~genesis_exists
    /\ ~base_exists
    /\ prefixes # <<>>
    /\ ENABLED (RootChoose("") /\ pc' = "root" /\ db' = NoPath)

\* C27: when get_ocean_metadata() or the scan of a prefix directory has
\* returned, every connection a probe opened is closed, also for a file
\* whose memories could not be counted.
C27_ProbeClosesItsConnection ==
    pc = "returned" => openConns = 0

=============================================================================
